---- MODULE Spec2Model ----
(***************************************************************************)
(* Model of the original logic of @mirad-work/sms-nestjs:                  *)
(*   - SmsService.verifyBulk         (sms.service.ts, batched bulk send)   *)
(*   - NotificationService.sendOtpWithRetry (advanced example, retry with  *)
(*     exponential backoff)                                                *)
(* The wrapped core library (coreService.verify) is the environment: every *)
(* invocation settles, at a time of the environment's choosing, by either  *)
(* returning a response or throwing.                                       *)
(***************************************************************************)
EXTENDS Integers, Sequences, FiniteSets, TLC

\* ------------------------------------------------------------------ bounds
MaxMsgs == 3
MaxConcurrency == 3
MaxRetriesBound == 4
MaxEnvVars == 3
MaxLiveMsgs == 2

\* --------------------------------------------------------------- constants
DefaultConcurrency == 5
DefaultMaxRetries == 3
BackoffUnitMs == 1000

Undefined == "undefined"

VARIABLES
  \* ---- SmsService.verifyBulk
  pc,            \* position of the verifyBulk call
  messages,      \* argument: ISmsMessage[]
  options,       \* argument: { concurrency?, failFast? }
  concurrency,   \* destructured option (default 5)
  failFast,      \* destructured option (default false)
  i,             \* loop variable of the batch loop
  results,       \* const results: ISmsResponse[]
  tasks,         \* every send started so far, in start order
  batchPromises, \* the current batch's promises (positions in tasks)
  allP,          \* the promise returned by Promise.all(batchPromises)
  bulkResult,    \* how the call settled: returned results or thrown error
  settled,       \* positions in tasks of the settled sends, in completion order
  \* ---- NotificationService.sendOtpWithRetry
  rpc,           \* position of the sendOtpWithRetry call
  maxRetries,    \* argument (default 3)
  attempt,       \* loop variable
  lastError,     \* let lastError: Error | undefined
  calls,         \* outcomes of the smsService.verify invocations, in order
  delays,        \* the delays (ms) awaited so far, in order
  retryResult,   \* how the call settled: returned response or thrown error
  \* ---- NotificationService.sendWithFallback
  fpc,           \* position of the sendWithFallback call
  fargs,         \* arguments { primaryDriver?, fallbackDriver? }
  defaultDriver, \* smsService.getDefaultDriver()
  available,     \* smsService.getAvailableDrivers()
  drivers,       \* const drivers (the candidate list)
  fidx,          \* position of the for..of loop in drivers
  lastResponse,  \* let lastResponse: ISmsResponse | undefined
  fchecks,       \* isDriverAvailable invocations so far, in order
  fcalls,        \* smsService.verify invocations so far, in order
  fallbackResult, \* how the call settled
  \* ---- SmsService.verify
  vpc,           \* position of the verify call
  vmessage,      \* argument: ISmsMessage
  coreCalls,     \* messages handed to coreService.verify, in order
  vlog,          \* logger calls made so far, in order
  verifyResult,  \* how the call settled
  \* ---- SmsService.healthCheck
  hpc,           \* position of the healthCheck call
  hconfig,       \* this.config and what the core reports for it
  healthResult,  \* how the call settled
  \* ---- NestSmsConfigHelper.createFromConfigService
  cpc,           \* position of the createFromConfigService call
  env,           \* the variables the ConfigService holds
  smsConfig,     \* the ISmsConfig returned
  \* ---- SmsService.getServiceInfo
  ipc,           \* position of the getServiceInfo calls
  iconfigs,      \* this.config of two services
  infoResults,   \* what getServiceInfo returned for each of them
  \* ---- SmsModule
  mpc,           \* position of the module registration
  mcall,         \* the static method invoked and its options
  moduleResult,  \* the DynamicModule returned or the error thrown
  injected,      \* what dependency injection hands to SmsService's constructor
  \* ---- NestSmsConfigHelper.validateDriverEnvironment / getMissingEnvironmentVars
  epc,           \* position of the two calls
  eargs,         \* arguments: driverType and the ConfigService's variables
  valid,         \* result of validateDriverEnvironment
  missing        \* result of getMissingEnvironmentVars

bulkVars == <<pc, messages, options, concurrency, failFast, i, results,
              tasks, batchPromises, allP, bulkResult, settled>>
retryVars == <<rpc, maxRetries, attempt, lastError, calls, delays,
               retryResult>>
fallbackVars == <<fpc, fargs, defaultDriver, available, drivers, fidx,
                  lastResponse, fchecks, fcalls, fallbackResult>>
verifyVars == <<vpc, vmessage, coreCalls, vlog, verifyResult>>
healthVars == <<hpc, hconfig, healthResult>>
configVars == <<cpc, env, smsConfig>>
infoVars == <<ipc, iconfigs, infoResults>>
moduleVars == <<mpc, mcall, moduleResult, injected>>
envCheckVars == <<epc, eargs, valid, missing>>
vars == <<bulkVars, retryVars, fallbackVars, verifyVars, healthVars, configVars,
  infoVars, moduleVars, envCheckVars>>
\* what the operations of one component leave alone
nonBulkVars == <<retryVars, fallbackVars, verifyVars, healthVars, configVars,
  infoVars, moduleVars, envCheckVars>>
nonRetryVars == <<bulkVars, fallbackVars, verifyVars, healthVars, configVars,
  infoVars, moduleVars, envCheckVars>>
nonFallbackVars == <<bulkVars, retryVars, verifyVars, healthVars, configVars,
  infoVars, moduleVars, envCheckVars>>
nonVerifyVars == <<bulkVars, retryVars, fallbackVars, healthVars, configVars,
  infoVars, moduleVars, envCheckVars>>
nonHealthVars == <<bulkVars, retryVars, fallbackVars, verifyVars, configVars,
  infoVars, moduleVars, envCheckVars>>
nonConfigVars == <<bulkVars, retryVars, fallbackVars, verifyVars, healthVars,
  infoVars, moduleVars, envCheckVars>>
nonInfoVars == <<bulkVars, retryVars, fallbackVars, verifyVars, healthVars,
  configVars, moduleVars, envCheckVars>>
nonModuleVars == <<bulkVars, retryVars, fallbackVars, verifyVars, healthVars,
  configVars, infoVars, envCheckVars>>
nonEnvCheckVars == <<bulkVars, retryVars, fallbackVars, verifyVars, healthVars,
  configVars, infoVars, moduleVars>>

\* ------------------------------------------------------------- data values
Message(k) == [to |-> k, template |-> "verify"]
Messages(n) == [k \in 1..n |-> Message(k)]

\* ISmsResponse values the core may return
SuccessResponses ==
  { [success |-> TRUE, messageId |-> m, error |-> Undefined, errorCode |-> Undefined]
      : m \in {"id-1", "id-2"} }
RejectedResponses ==
  { [success |-> FALSE, messageId |-> Undefined,
     error |-> "Provider rejected", errorCode |-> "PROVIDER_ERROR"],
    [success |-> FALSE, messageId |-> Undefined,
     error |-> "Rate limit exceeded", errorCode |-> "RATE_LIMIT"] }
Responses == SuccessResponses \cup RejectedResponses

\* values the core may throw: an SmsException (carries _code / code), a plain
\* Error without a code, a plain Error carrying a code (e.g. a Node system
\* error), and a thrown non-Error value (a string)
SmsExceptions ==
  { [kind |-> "SmsException", message |-> "Phone number is required",
     code |-> "VALIDATION_ERROR", _code |-> "VALIDATION_ERROR", value |-> Undefined] }
PlainErrors ==
  { [kind |-> "Error", message |-> "socket hang up",
     code |-> Undefined, _code |-> Undefined, value |-> Undefined],
    [kind |-> "Error", message |-> "connect ECONNREFUSED",
     code |-> "ECONNREFUSED", _code |-> Undefined, value |-> Undefined] }
NonErrors ==
  { [kind |-> "string", message |-> Undefined,
     code |-> Undefined, _code |-> Undefined, value |-> "timeout"] }
Throwables == SmsExceptions \cup PlainErrors \cup NonErrors

InstanceOfError(e) == e.kind \in {"SmsException", "Error"}
InstanceOfSmsException(e) == e.kind = "SmsException"
\* String(error) for the thrown values of the model
JsString(e) == IF e.kind = "string" THEN e.value ELSE e.message

\* outcome of one asynchronous call: a returned response or a thrown error
Returned(r) == [kind |-> "return", response |-> r]
Threw(e) == [kind |-> "throw", error |-> e]
NoOutcome == [kind |-> "none"]
CoreOutcomes == {Returned(r) : r \in Responses} \cup {Threw(e) : e \in Throwables}

\* promises
Pending == [state |-> "pending"]
Fulfilled(v) == [state |-> "fulfilled", value |-> v]
Rejected(e) == [state |-> "rejected", reason |-> e]

\* JavaScript arrays: a sequence whose unassigned slots are holes
Hole == [hole |-> TRUE]
Max(a, b) == IF a >= b THEN a ELSE b
Min(a, b) == IF a <= b THEN a ELSE b

\* arr[idx] = v  (idx is a 0-based array index)
ArraySet(arr, idx, v) ==
  [k \in 1..Max(Len(arr), idx + 1) |->
      IF k = idx + 1 THEN v
      ELSE IF k <= Len(arr) THEN arr[k] ELSE Hole]

\* Array.prototype.slice(start, end): negative arguments count from the end
RelIndex(k, len) == IF k < 0 THEN Max(len + k, 0) ELSE Min(k, len)
\* variant: slice treated as including the element at `end`
SliceIndices_Inclusive(len, start, end) ==
  LET from == RelIndex(start, len)
      to == RelIndex(end + 1, len)
  IN [p \in 1..Max(to - from, 0) |-> from + p - 1]

SliceIndices(len, start, end) ==
  LET from == RelIndex(start, len)
      to == RelIndex(end, len)
  IN [p \in 1..Max(to - from, 0) |-> from + p - 1]
Slice(arr, start, end) ==
  LET idx == SliceIndices(Len(arr), start, end)
  IN [p \in 1..Len(idx) |-> arr[idx[p] + 1]]

\* ------------------------------------------------------------ SmsService
\* variant: the caught error is wrapped in a new Error before the rethrow
Verify_Wrapped(coreOutcome) ==
  IF coreOutcome.kind = "return"
  THEN Returned(coreOutcome.response)
  ELSE Threw([kind |-> "Error", message |-> coreOutcome.error.message,
              code |-> Undefined, _code |-> Undefined, value |-> Undefined])

\* SmsService.verify: awaits the core, logs, returns the response or rethrows
Verify(coreOutcome) ==
  IF coreOutcome.kind = "return"
  THEN Returned(coreOutcome.response)
  ELSE Threw(coreOutcome.error)

\* variant: a fixed text instead of the exception's message
ErrorMessage_Generic(error) == "Bulk send failed"

ErrorMessage(error) ==
  IF InstanceOfError(error) THEN error.message ELSE JsString(error)

\* variant: the code of the exception is dropped
ErrorCode_Dropped(error) == "UNKNOWN_ERROR"

ErrorCode(error) ==
  IF InstanceOfSmsException(error) THEN error._code ELSE "UNKNOWN_ERROR"

ErrorResponse(error) ==
  [success |-> FALSE, messageId |-> Undefined,
   error |-> ErrorMessage(error), errorCode |-> ErrorCode(error)]

\* variant: the batch offset is forgotten in the reported index
BatchTask_NoBase(out, base, index, ff) ==
  IF out.kind = "return"
  THEN Fulfilled([index |-> index, response |-> out.response])
  ELSE IF ff
       THEN Rejected(out.error)
       ELSE Fulfilled([index |-> index, response |-> ErrorResponse(out.error)])

\* variant: the failFast rethrow is missing
BatchTask_NoRethrow(out, base, index, ff) ==
  IF out.kind = "return"
  THEN Fulfilled([index |-> base + index, response |-> out.response])
  ELSE Fulfilled([index |-> base + index, response |-> ErrorResponse(out.error)])

\* variant: with failFast an unsuccessful response is treated like a throw
BatchTask_RejectUnsuccessful(out, base, index, ff) ==
  IF out.kind = "return" /\ ~(ff /\ ~out.response.success)
  THEN Fulfilled([index |-> base + index, response |-> out.response])
  ELSE IF ff
       THEN Rejected(IF out.kind = "return" THEN out.response ELSE out.error)
       ELSE Fulfilled([index |-> base + index, response |-> ErrorResponse(out.error)])

\* the async callback of batch.map: the promise it settles to, given the
\* outcome of this.verify(message) for the message at batch position `index`
BatchTask(out, base, index, ff) ==
  IF out.kind = "return"
  THEN Fulfilled([index |-> base + index, response |-> out.response])
  ELSE IF ff
       THEN Rejected(out.error)
       ELSE Fulfilled([index |-> base + index, response |-> ErrorResponse(out.error)])

IsFulfilled(p) == p.state = "fulfilled"

\* variant: resolves as soon as one promise is fulfilled (Promise.any-like)
PromiseAll_Any(ps, prev) ==
  IF prev.state # "pending" THEN prev
  ELSE IF \E p \in 1..Len(ps) : ps[p].state = "rejected"
       THEN Rejected(ps[CHOOSE p \in 1..Len(ps) : ps[p].state = "rejected"].reason)
       ELSE IF Len(ps) = 0 \/ \E p \in 1..Len(ps) : ps[p].state = "fulfilled"
            THEN LET done == SelectSeq(ps, IsFulfilled)
                 IN Fulfilled([p \in 1..Len(done) |-> done[p].value])
            ELSE Pending

\* variant: a rejected promise leaves the combined promise pending
PromiseAll_IgnoresRejection(ps, prev) ==
  IF prev.state # "pending" THEN prev
  ELSE IF \A p \in 1..Len(ps) : ps[p].state = "fulfilled"
       THEN Fulfilled([p \in 1..Len(ps) |-> ps[p].value])
       ELSE Pending

\* variant: settles only when every promise has settled and then rejects
\* with the rejection of the lowest index
PromiseAll_ByIndex(ps, prev) ==
  IF prev.state # "pending" THEN prev
  ELSE IF \E p \in 1..Len(ps) : ps[p].state = "pending" THEN Pending
  ELSE IF \E p \in 1..Len(ps) : ps[p].state = "rejected"
       THEN Rejected(ps[CHOOSE p \in 1..Len(ps) :
                          /\ ps[p].state = "rejected"
                          /\ \A q \in 1..(p - 1) : ps[q].state # "rejected"].reason)
       ELSE Fulfilled([p \in 1..Len(ps) |-> ps[p].value])

\* Promise.all over the promises ps, given its previous state: rejects with
\* the first rejection, fulfils with all values (in input order) once every
\* promise is fulfilled
PromiseAll(ps, prev) ==
  IF prev.state # "pending" THEN prev
  ELSE IF \E p \in 1..Len(ps) : ps[p].state = "rejected"
       THEN Rejected(ps[CHOOSE p \in 1..Len(ps) : ps[p].state = "rejected"].reason)
       ELSE IF \A p \in 1..Len(ps) : ps[p].state = "fulfilled"
            THEN Fulfilled([p \in 1..Len(ps) |-> ps[p].value])
            ELSE Pending

\* batchResults.forEach(({index, response}) => { results[index] = response })
RECURSIVE PlaceResults(_, _)
PlaceResults(res, batchResults) ==
  IF batchResults = <<>> THEN res
  ELSE PlaceResults(ArraySet(res, Head(batchResults).index, Head(batchResults).response),
                    Tail(batchResults))

BulkOptions ==
  { [concurrency |-> c, failFast |-> f] : c \in 0..MaxConcurrency, f \in BOOLEAN }
  \cup { [concurrency |-> c] : c \in 0..MaxConcurrency }
  \cup { [failFast |-> f] : f \in BOOLEAN }
  \cup { [x \in {} |-> TRUE] }

PromisesOf(ids, ts) == [p \in 1..Len(ids) |-> ts[ids[p]].promise]

InitBulk ==
  /\ pc = "idle"
  /\ messages = <<>>
  /\ options = [x \in {} |-> TRUE]
  /\ concurrency = DefaultConcurrency
  /\ failFast = FALSE
  /\ i = 0
  /\ results = <<>>
  /\ tasks = <<>>
  /\ batchPromises = <<>>
  /\ allP = Pending
  /\ bulkResult = NoOutcome
  /\ settled = <<>>

\* verifyBulk(messages, options): entry, destructuring and `results = []`
VerifyBulk ==
  /\ pc = "idle"
  /\ \E n \in 0..MaxMsgs, opts \in BulkOptions :
       /\ messages' = Messages(n)
       /\ options' = opts
       /\ concurrency' = IF "concurrency" \in DOMAIN opts
                         THEN opts.concurrency ELSE DefaultConcurrency
       /\ failFast' = IF "failFast" \in DOMAIN opts THEN opts.failFast ELSE FALSE
  /\ i' = 0
  /\ results' = <<>>
  /\ pc' = "loop"
  /\ UNCHANGED <<tasks, batchPromises, allP, bulkResult, settled>>
  /\ UNCHANGED nonBulkVars

\* verifyBulk(messages, options): the same entry, for the shorter message
\* sequences of the termination analysis
VerifyBulkLive ==
  /\ pc = "idle"
  /\ \E n \in 0..MaxLiveMsgs, opts \in BulkOptions :
       /\ messages' = Messages(n)
       /\ options' = opts
       /\ concurrency' = IF "concurrency" \in DOMAIN opts
                         THEN opts.concurrency ELSE DefaultConcurrency
       /\ failFast' = IF "failFast" \in DOMAIN opts THEN opts.failFast ELSE FALSE
  /\ i' = 0
  /\ results' = <<>>
  /\ pc' = "loop"
  /\ UNCHANGED <<tasks, batchPromises, allP, bulkResult, settled>>
  /\ UNCHANGED nonBulkVars

\* loop test true: slice the batch, start every send of it, call Promise.all
StartBatch ==
  /\ pc = "loop"
  /\ i < Len(messages)
  /\ LET idx == SliceIndices(Len(messages), i, i + concurrency)
         batch == Slice(messages, i, i + concurrency)
         started == [p \in 1..Len(batch) |->
                       [base |-> i, index |-> p - 1, message |-> batch[p],
                        source |-> idx[p], promise |-> Pending, outcome |-> NoOutcome]]
         ids == [p \in 1..Len(batch) |-> Len(tasks) + p]
     IN /\ tasks' = tasks \o started
        /\ batchPromises' = ids
        /\ allP' = PromiseAll(PromisesOf(ids, tasks'), Pending)
  /\ pc' = "await"
  /\ UNCHANGED <<messages, options, concurrency, failFast, i, results, bulkResult, settled>>
  /\ UNCHANGED nonBulkVars

\* variant: the sends still in flight are cancelled once the call has thrown
SettleSend_Cancelled ==
  /\ pc # "thrown"
  /\ \E t \in 1..Len(tasks), out \in CoreOutcomes :
       /\ tasks[t].outcome = NoOutcome
       /\ tasks' = [tasks EXCEPT
                      ![t].outcome = out,
                      ![t].promise = BatchTask(Verify(out), tasks[t].base,
                                               tasks[t].index, failFast)]
       /\ settled' = Append(settled, t)
  /\ allP' = PromiseAll(PromisesOf(batchPromises, tasks'), allP)
  /\ UNCHANGED <<pc, messages, options, concurrency, failFast, i, results,
                 batchPromises, bulkResult>>
  /\ UNCHANGED nonBulkVars

\* one started send settles; its callback settles its promise, and
\* Promise.all reacts when the promise belongs to the batch it watches
SettleSend ==
  /\ \E t \in 1..Len(tasks), out \in CoreOutcomes :
       /\ tasks[t].outcome = NoOutcome
       /\ tasks' = [tasks EXCEPT
                      ![t].outcome = out,
                      ![t].promise = BatchTask(Verify(out), tasks[t].base,
                                               tasks[t].index, failFast)]
       /\ settled' = Append(settled, t)
  /\ allP' = PromiseAll(PromisesOf(batchPromises, tasks'), allP)
  /\ UNCHANGED <<pc, messages, options, concurrency, failFast, i, results,
                 batchPromises, bulkResult>>
  /\ UNCHANGED nonBulkVars

\* variant: the next batch starts one message early
AwaitBatch_Overlapping ==
  /\ pc = "await"
  /\ allP.state # "pending"
  /\ IF allP.state = "fulfilled"
     THEN /\ results' = PlaceResults(results, allP.value)
          /\ i' = i + Max(concurrency - 1, 1)
          /\ pc' = "loop"
          /\ UNCHANGED bulkResult
     ELSE IF failFast
          THEN /\ pc' = "thrown"
               /\ bulkResult' = Threw(allP.reason)
               /\ UNCHANGED <<results, i>>
          ELSE /\ i' = i + concurrency
               /\ pc' = "loop"
               /\ UNCHANGED <<results, bulkResult>>
  /\ UNCHANGED <<messages, options, concurrency, failFast, tasks,
                 batchPromises, allP, settled>>
  /\ UNCHANGED nonBulkVars

\* `await Promise.all(batchPromises)` resumes: place the results, or catch
AwaitBatch ==
  /\ pc = "await"
  /\ allP.state # "pending"
  /\ IF allP.state = "fulfilled"
     THEN /\ results' = PlaceResults(results, allP.value)
          /\ i' = i + concurrency
          /\ pc' = "loop"
          /\ UNCHANGED bulkResult
     ELSE IF failFast
          THEN /\ pc' = "thrown"
               /\ bulkResult' = Threw(allP.reason)
               /\ UNCHANGED <<results, i>>
          ELSE /\ i' = i + concurrency
               /\ pc' = "loop"
               /\ UNCHANGED <<results, bulkResult>>
  /\ UNCHANGED <<messages, options, concurrency, failFast, tasks,
                 batchPromises, allP, settled>>
  /\ UNCHANGED nonBulkVars

\* loop test false: log the summary and return results
ReturnResults ==
  /\ pc = "loop"
  /\ ~(i < Len(messages))
  /\ bulkResult' = [kind |-> "return", value |-> results]
  /\ pc' = "returned"
  /\ UNCHANGED <<messages, options, concurrency, failFast, i, results, tasks,
                 batchPromises, allP, settled>>
  /\ UNCHANGED nonBulkVars

\* ---------------------------------- NotificationService.sendOtpWithRetry
NoError == [kind |-> "undefined", message |-> Undefined,
            code |-> Undefined, _code |-> Undefined, value |-> Undefined]
\* new Error(message)
NewError(message) ==
  [kind |-> "Error", message |-> message,
   code |-> Undefined, _code |-> Undefined, value |-> Undefined]

\* variant: an error already recorded is kept
RecordError_KeepFirst(prev, error) ==
  IF prev # NoError THEN prev
  ELSE IF InstanceOfError(error) THEN error ELSE NewError(JsString(error))

\* lastError = error instanceof Error ? error : new Error(String(error))
RecordError(prev, error) ==
  IF InstanceOfError(error) THEN error ELSE NewError(JsString(error))

RECURSIVE Pow(_, _)
\* Math.pow(base, exp) for a non-negative integer exponent
Pow(base, exp) == IF exp = 0 THEN 1 ELSE base * Pow(base, exp - 1)

\* variant: the exponent counts attempts from 0
Backoff_ZeroBased(att) == Pow(2, att - 1) * BackoffUnitMs

\* Math.pow(2, attempt) * 1000
Backoff(att) == Pow(2, att) * BackoffUnitMs

RetryArgs ==
  { [maxRetries |-> m] : m \in 0..MaxRetriesBound } \cup { [x \in {} |-> TRUE] }

InitRetry ==
  /\ rpc = "idle"
  /\ maxRetries = DefaultMaxRetries
  /\ attempt = 0
  /\ lastError = NoError
  /\ calls = <<>>
  /\ delays = <<>>
  /\ retryResult = NoOutcome

\* sendOtpWithRetry(phoneNumber, code, maxRetries = 3): entry, `attempt = 1`
SendOtpWithRetry ==
  /\ rpc = "idle"
  /\ \E args \in RetryArgs :
       maxRetries' = IF "maxRetries" \in DOMAIN args
                     THEN args.maxRetries ELSE DefaultMaxRetries
  /\ attempt' = 1
  /\ lastError' = NoError
  /\ rpc' = "loop"
  /\ UNCHANGED <<calls, delays, retryResult>>
  /\ UNCHANGED nonRetryVars

\* loop test true: build the message and invoke this.smsService.verify
StartAttempt ==
  /\ rpc = "loop"
  /\ attempt <= maxRetries
  /\ calls' = Append(calls, NoOutcome)
  /\ rpc' = "sending"
  /\ UNCHANGED <<maxRetries, attempt, lastError, delays, retryResult>>
  /\ UNCHANGED nonRetryVars

\* variant: an unsuccessful response is treated as a failed attempt
VerifyReturns_RetryUnsuccessful ==
  /\ rpc = "sending"
  /\ \E response \in Responses :
       /\ Verify(Returned(response)).kind = "return"
       /\ calls' = [calls EXCEPT ![Len(calls)] = Returned(response)]
       /\ IF response.success
          THEN /\ retryResult' = Returned(response)
               /\ rpc' = "returned"
               /\ UNCHANGED attempt
          ELSE /\ attempt' = attempt + 1
               /\ rpc' = "loop"
               /\ UNCHANGED retryResult
  /\ UNCHANGED <<maxRetries, lastError, delays>>
  /\ UNCHANGED nonRetryVars

\* the awaited verify returns a response: returned in both branches
VerifyReturns ==
  /\ rpc = "sending"
  /\ \E response \in Responses :
       /\ Verify(Returned(response)).kind = "return"
       /\ calls' = [calls EXCEPT ![Len(calls)] = Returned(response)]
       /\ retryResult' = IF response.success
                         THEN Returned(response)
                         ELSE Returned(response)
  /\ rpc' = "returned"
  /\ UNCHANGED <<maxRetries, attempt, lastError, delays>>
  /\ UNCHANGED nonRetryVars

\* the awaited verify throws: record the error, back off if attempts remain
VerifyThrows ==
  /\ rpc = "sending"
  /\ \E error \in Throwables :
       /\ Verify(Threw(error)).kind = "throw"
       /\ calls' = [calls EXCEPT ![Len(calls)] = Threw(error)]
       /\ lastError' = RecordError(lastError, error)
  /\ IF attempt < maxRetries
     THEN /\ delays' = Append(delays, Backoff(attempt))
          /\ rpc' = "delaying"
          /\ UNCHANGED attempt
     ELSE /\ attempt' = attempt + 1
          /\ rpc' = "loop"
          /\ UNCHANGED delays
  /\ UNCHANGED <<maxRetries, retryResult>>
  /\ UNCHANGED nonRetryVars

\* the backoff timer fires: `attempt++`
DelayElapsed ==
  /\ rpc = "delaying"
  /\ attempt' = attempt + 1
  /\ rpc' = "loop"
  /\ UNCHANGED <<maxRetries, lastError, calls, delays, retryResult>>
  /\ UNCHANGED nonRetryVars

\* loop test false: throw lastError || new Error('All retry attempts failed')
ThrowLastError ==
  /\ rpc = "loop"
  /\ ~(attempt <= maxRetries)
  /\ retryResult' = Threw(IF lastError # NoError
                          THEN lastError
                          ELSE NewError("All retry attempts failed"))
  /\ rpc' = "thrown"
  /\ UNCHANGED <<maxRetries, attempt, lastError, calls, delays>>
  /\ UNCHANGED nonRetryVars

\* ---------------------------------- NotificationService.sendWithFallback
\* DriverType values used by the model (DriverType.MOCK is 'mock')
MOCK == "mock"
Drivers == {"kavenegar", "smsir", MOCK}

Range(seq) == {seq[k] : k \in 1..Len(seq)}
\* the lists getAvailableDrivers() may return: drivers without repetition
AvailableLists ==
  UNION { {a \in [1..n -> Drivers] : \A j, k \in 1..n : a[j] = a[k] => j = k}
            : n \in 0..Cardinality(Drivers) }

FallbackArgs ==
  { [primaryDriver |-> p, fallbackDriver |-> f] : p \in Drivers, f \in Drivers }
  \cup { [primaryDriver |-> p] : p \in Drivers }
  \cup { [fallbackDriver |-> f] : f \in Drivers }
  \cup { [x \in {} |-> TRUE] }

\* an omitted argument is undefined
Arg(args, name) == IF name \in DOMAIN args THEN args[name] ELSE Undefined
\* truthiness of a string-or-undefined value
Truthy(v) == v # Undefined /\ v # ""
\* a || b
Or(a, b) == IF Truthy(a) THEN a ELSE b
\* [...].filter(Boolean)
FilterBoolean(seq) == SelectSeq(seq, Truthy)

\* variant: every driver is reported available
IsDriverAvailable_Always(driver, avail) == TRUE

\* smsService.isDriverAvailable(driver), when it returns
IsDriverAvailable(driver, avail) == driver \in Range(avail)

\* getAlternativeDriver(currentDriver)
GetAlternativeDriver(currentDriver, avail) ==
  LET IsOther(d) == d # currentDriver
      alternatives == SelectSeq(avail, IsOther)
  IN IF alternatives # <<>> THEN Or(alternatives[1], MOCK) ELSE MOCK

\* const drivers = [primaryDriver || getDefaultDriver(),
\*                  fallbackDriver || getAlternativeDriver(primaryDriver)]
\*                 .filter(Boolean)
CandidateDrivers(args, def, avail) ==
  FilterBoolean(<< Or(Arg(args, "primaryDriver"), def),
                   Or(Arg(args, "fallbackDriver"),
                      GetAlternativeDriver(Arg(args, "primaryDriver"), avail)) >>)

NoResponse == [undefined |-> TRUE]
AllFailedResponse ==
  [success |-> FALSE, messageId |-> Undefined,
   error |-> "All drivers failed or unavailable", errorCode |-> Undefined]

\* variant: the remembered response is ignored
FinalResult_AlwaysSynthetic(last) == AllFailedResponse

\* return lastResponse || { success: false, error: '...' }
FinalResult(last) == IF last # NoResponse THEN last ELSE AllFailedResponse

InitFallback ==
  /\ fpc = "idle"
  /\ fargs = [x \in {} |-> TRUE]
  /\ defaultDriver = MOCK
  /\ available = <<>>
  /\ drivers = <<>>
  /\ fidx = 0
  /\ lastResponse = NoResponse
  /\ fchecks = <<>>
  /\ fcalls = <<>>
  /\ fallbackResult = NoOutcome

\* sendWithFallback(..., primaryDriver?, fallbackDriver?): build the candidates
SendWithFallback ==
  /\ fpc = "idle"
  /\ \E args \in FallbackArgs, def \in Drivers \cup {""}, avail \in AvailableLists :
       /\ fargs' = args
       /\ defaultDriver' = def
       /\ available' = avail
       /\ drivers' = CandidateDrivers(args, def, avail)
  /\ fidx' = 1
  /\ lastResponse' = NoResponse
  /\ fpc' = "loop"
  /\ UNCHANGED <<fchecks, fcalls, fallbackResult>>
  /\ UNCHANGED nonFallbackVars

\* next candidate is reported available: build the message, invoke verify
SendToCandidate ==
  /\ fpc = "loop"
  /\ fidx <= Len(drivers)
  /\ IsDriverAvailable(drivers[fidx], available)
  /\ fchecks' = Append(fchecks, [driver |-> drivers[fidx], result |-> "available"])
  /\ fcalls' = Append(fcalls, [driver |-> drivers[fidx], pos |-> fidx,
                               outcome |-> NoOutcome])
  /\ fpc' = "sending"
  /\ UNCHANGED <<fargs, defaultDriver, available, drivers, fidx, lastResponse,
                 fallbackResult>>
  /\ UNCHANGED nonFallbackVars

\* next candidate is reported unavailable: warn and continue
SkipUnavailable ==
  /\ fpc = "loop"
  /\ fidx <= Len(drivers)
  /\ ~IsDriverAvailable(drivers[fidx], available)
  /\ fchecks' = Append(fchecks, [driver |-> drivers[fidx], result |-> "unavailable"])
  /\ fidx' = fidx + 1
  /\ UNCHANGED <<fpc, fargs, defaultDriver, available, drivers, lastResponse,
                 fcalls, fallbackResult>>
  /\ UNCHANGED nonFallbackVars

\* variant: an exception of the availability check escapes the call
AvailabilityThrows_Propagates ==
  /\ fpc = "loop"
  /\ fidx <= Len(drivers)
  /\ fchecks' = Append(fchecks, [driver |-> drivers[fidx], result |-> "threw"])
  /\ \E error \in Throwables : fallbackResult' = Threw(error)
  /\ fpc' = "thrown"
  /\ UNCHANGED <<fargs, defaultDriver, available, drivers, fidx, lastResponse, fcalls>>
  /\ UNCHANGED nonFallbackVars

\* the availability check throws: caught, logged, next candidate
AvailabilityThrows ==
  /\ fpc = "loop"
  /\ fidx <= Len(drivers)
  /\ fchecks' = Append(fchecks, [driver |-> drivers[fidx], result |-> "threw"])
  /\ fidx' = fidx + 1
  /\ UNCHANGED <<fpc, fargs, defaultDriver, available, drivers, lastResponse,
                 fcalls, fallbackResult>>
  /\ UNCHANGED nonFallbackVars

\* variant: a successful response is remembered and the loop goes on
FallbackVerifyReturns_NoEarlyReturn ==
  /\ fpc = "sending"
  /\ \E response \in Responses :
       /\ fcalls' = [fcalls EXCEPT ![Len(fcalls)].outcome = Verify(Returned(response))]
       /\ lastResponse' = response
  /\ fidx' = fidx + 1
  /\ fpc' = "loop"
  /\ UNCHANGED <<fargs, defaultDriver, available, drivers, fchecks, fallbackResult>>
  /\ UNCHANGED nonFallbackVars

\* the awaited verify returns: return a success, remember a failure
FallbackVerifyReturns ==
  /\ fpc = "sending"
  /\ \E response \in Responses :
       /\ fcalls' = [fcalls EXCEPT ![Len(fcalls)].outcome = Verify(Returned(response))]
       /\ IF response.success
          THEN /\ fallbackResult' = Returned(response)
               /\ fpc' = "returned"
               /\ UNCHANGED <<lastResponse, fidx>>
          ELSE /\ lastResponse' = response
               /\ fidx' = fidx + 1
               /\ fpc' = "loop"
               /\ UNCHANGED fallbackResult
  /\ UNCHANGED <<fargs, defaultDriver, available, drivers, fchecks>>
  /\ UNCHANGED nonFallbackVars

\* the awaited verify throws: caught, logged, next candidate
FallbackVerifyThrows ==
  /\ fpc = "sending"
  /\ \E error \in Throwables :
       fcalls' = [fcalls EXCEPT ![Len(fcalls)].outcome = Verify(Threw(error))]
  /\ fidx' = fidx + 1
  /\ fpc' = "loop"
  /\ UNCHANGED <<fargs, defaultDriver, available, drivers, lastResponse, fchecks,
                 fallbackResult>>
  /\ UNCHANGED nonFallbackVars

\* candidates exhausted: return the remembered or the synthetic response
FallbackExhausted ==
  /\ fpc = "loop"
  /\ ~(fidx <= Len(drivers))
  /\ fallbackResult' = Returned(FinalResult(lastResponse))
  /\ fpc' = "returned"
  /\ UNCHANGED <<fargs, defaultDriver, available, drivers, fidx, lastResponse,
                 fchecks, fcalls>>
  /\ UNCHANGED nonFallbackVars

NextFallback ==
  SendWithFallback \/ SendToCandidate \/ SkipUnavailable \/ AvailabilityThrows
    \/ FallbackVerifyReturns \/ FallbackVerifyThrows \/ FallbackExhausted

\* ----------------------------------------------------- SmsService.verify
\* ISmsMessage arguments: recipient, template and tokens possibly empty or
\* missing, driver optional
VerifyMessages ==
  { [to |-> t, template |-> tpl, tokens |-> tok, driver |-> drv] :
      t \in {"", "+989123456789"}, tpl \in {"", "verify"},
      tok \in {Undefined, "code"}, drv \in {Undefined} \cup Drivers }

InitVerify ==
  /\ vpc = "idle"
  /\ vmessage = [x \in {} |-> TRUE]
  /\ coreCalls = <<>>
  /\ vlog = <<>>
  /\ verifyResult = NoOutcome

\* verify(message): logger.debug, then await this.coreService.verify(message)
VerifyCall ==
  /\ vpc = "idle"
  /\ \E message \in VerifyMessages :
       /\ vmessage' = message
       /\ coreCalls' = Append(coreCalls, [message |-> message, outcome |-> NoOutcome])
  /\ vlog' = Append(vlog, "debug")
  /\ vpc' = "awaiting"
  /\ UNCHANGED verifyResult
  /\ UNCHANGED nonVerifyVars

\* the core returns a response: log or warn, return the response
VerifyCoreReturns ==
  /\ vpc = "awaiting"
  /\ \E response \in Responses :
       /\ coreCalls' = [coreCalls EXCEPT ![Len(coreCalls)].outcome = Returned(response)]
       /\ vlog' = Append(vlog, IF response.success THEN "log" ELSE "warn")
       /\ verifyResult' = Verify(Returned(response))
  /\ vpc' = "done"
  /\ UNCHANGED vmessage
  /\ UNCHANGED nonVerifyVars

\* the core throws: logger.error, rethrow
VerifyCoreThrows ==
  /\ vpc = "awaiting"
  /\ \E error \in Throwables :
       /\ coreCalls' = [coreCalls EXCEPT ![Len(coreCalls)].outcome = Threw(error)]
       /\ verifyResult' = Verify(Threw(error))
  /\ vlog' = Append(vlog, "error")
  /\ vpc' = "done"
  /\ UNCHANGED vmessage
  /\ UNCHANGED nonVerifyVars

NextVerify == VerifyCall \/ VerifyCoreReturns \/ VerifyCoreThrows

\* ------------------------------------------------ SmsService.healthCheck
\* the ISmsConfig of the service and the drivers the core reports for it
HealthConfigs ==
  { [defaultDriver |-> def, available |-> avail] :
      def \in Drivers, avail \in AvailableLists }

Timestamps == {"2024-01-01T00:00:00.000Z", "2024-01-01T00:00:01.000Z"}

\* getServiceInfo(), when it returns (timeout and driversConfigured are not
\* read by healthCheck)
GetServiceInfo(cfg) ==
  [defaultDriver |-> cfg.defaultDriver, availableDrivers |-> cfg.available]

\* variant: the caught error is rethrown
HealthOutcome_Rethrows(cfg, info, ts) ==
  IF info.kind = "return"
  THEN Returned([status |-> "healthy",
                 defaultDriver |-> info.response.defaultDriver,
                 availableDrivers |-> info.response.availableDrivers,
                 timestamp |-> ts, error |-> Undefined])
  ELSE Threw(info.error)

\* the body of healthCheck, given how this.getServiceInfo() settled
HealthOutcome(cfg, info, ts) ==
  IF info.kind = "return"
  THEN Returned([status |-> "healthy",
                 defaultDriver |-> info.response.defaultDriver,
                 availableDrivers |-> info.response.availableDrivers,
                 timestamp |-> ts, error |-> Undefined])
  ELSE Returned([status |-> "unhealthy",
                 defaultDriver |-> cfg.defaultDriver,
                 availableDrivers |-> <<>>,
                 timestamp |-> ts,
                 error |-> IF InstanceOfError(info.error)
                           THEN info.error.message ELSE JsString(info.error)])

InitHealth ==
  /\ hpc = "idle"
  /\ hconfig = [x \in {} |-> TRUE]
  /\ healthResult = NoOutcome

\* healthCheck(): getServiceInfo returns
HealthCheckHealthy ==
  /\ hpc = "idle"
  /\ \E cfg \in HealthConfigs, ts \in Timestamps :
       /\ hconfig' = [config |-> cfg, serviceInfo |-> Returned(GetServiceInfo(cfg))]
       /\ healthResult' = HealthOutcome(cfg, Returned(GetServiceInfo(cfg)), ts)
  /\ hpc' = "done"
  /\ UNCHANGED nonHealthVars

\* healthCheck(): getServiceInfo throws
HealthCheckUnhealthy ==
  /\ hpc = "idle"
  /\ \E cfg \in HealthConfigs, ts \in Timestamps, error \in Throwables :
       /\ hconfig' = [config |-> cfg, serviceInfo |-> Threw(error)]
       /\ healthResult' = HealthOutcome(cfg, Threw(error), ts)
  /\ hpc' = "done"
  /\ UNCHANGED nonHealthVars

NextHealth == HealthCheckHealthy \/ HealthCheckUnhealthy

\* ------------------------- NestSmsConfigHelper.createFromConfigService
\* the providers configured from <prefix>_URL / _API_KEY / _LINE_NUMBER
Providers ==
  { [name |-> "kavenegar", urlVar |-> "SMS_KAVENEGAR_URL",
     keyVar |-> "SMS_KAVENEGAR_API_KEY", lineVar |-> "SMS_KAVENEGAR_LINE_NUMBER",
     defaultUrl |-> "https://api.kavenegar.com/v1/"],
    [name |-> "smsir", urlVar |-> "SMS_SMSIR_URL",
     keyVar |-> "SMS_SMSIR_API_KEY", lineVar |-> "SMS_SMSIR_LINE_NUMBER",
     defaultUrl |-> "https://api.sms.ir/v1/"],
    [name |-> "melipayamak", urlVar |-> "SMS_MELIPAYAMAK_URL",
     keyVar |-> "SMS_MELIPAYAMAK_API_KEY", lineVar |-> "SMS_MELIPAYAMAK_LINE_NUMBER",
     defaultUrl |-> "https://console.melipayamak.com/api/"],
    [name |-> "ippanel", urlVar |-> "SMS_IPPANEL_URL",
     keyVar |-> "SMS_IPPANEL_API_KEY", lineVar |-> "SMS_IPPANEL_LINE_NUMBER",
     defaultUrl |-> "https://api2.ippanel.com/"] }

\* JavaScript numbers: an integer or NaN
Num(v) == [nan |-> FALSE, val |-> v]
NaN == [nan |-> TRUE, val |-> 0]

UrlVars == {p.urlVar : p \in Providers}
KeyVars == {p.keyVar : p \in Providers}
LineVars == {p.lineVar : p \in Providers}
EnvNames ==
  {"SMS_DEFAULT_DRIVER", "SMS_TIMEOUT", "NODE_ENV", "SMS_USE_MOCK",
   "SMS_MOCK_SHOULD_FAIL", "SMS_MOCK_DELAY"} \cup UrlVars \cup KeyVars \cup LineVars

\* the values a variable may be set to (a variable may also be unset)
EnvValues(name) ==
  CASE name = "SMS_DEFAULT_DRIVER" -> {"", "mock", "smsir"}
    [] name = "SMS_TIMEOUT" -> {"", "15000", "abc", "30s"}
    [] name = "NODE_ENV" -> {"test", "production"}
    [] name \in {"SMS_USE_MOCK", "SMS_MOCK_SHOULD_FAIL"} -> {"true", "false"}
    [] name = "SMS_MOCK_DELAY" -> {"", "250"}
    [] name \in UrlVars -> {"", "https://sms.example.test/"}
    [] name \in KeyVars -> {"", "test-api-key"}
    [] OTHER -> {"", "test-line-number"}

RECURSIVE EnvsOver(_)
\* every assignment of values to the variables in names
EnvsOver(names) ==
  IF names = {} THEN { [x \in {} |-> ""] }
  ELSE LET n == CHOOSE m \in names : TRUE
       IN { [k \in DOMAIN e \cup {n} |-> IF k = n THEN v ELSE e[k]] :
              e \in EnvsOver(names \ {n}), v \in EnvValues(n) }

\* configService.get(key, defaultValue): the default only when undefined
Get(e, key, defaultValue) == IF key \in DOMAIN e THEN e[key] ELSE defaultValue

\* the characters of the strings handed to parseInt
Chars(str) ==
  CASE str = "" -> <<>>
    [] str = "0" -> <<"0">>
    [] str = "250" -> <<"2", "5", "0">>
    [] str = "10000" -> <<"1", "0", "0", "0", "0">>
    [] str = "15000" -> <<"1", "5", "0", "0", "0">>
    [] str = "30s" -> <<"3", "0", "s">>
    [] str = "abc" -> <<"a", "b", "c">>

DigitValue(c) ==
  CASE c = "0" -> 0 [] c = "1" -> 1 [] c = "2" -> 2 [] c = "3" -> 3
    [] c = "4" -> 4 [] c = "5" -> 5 [] c = "6" -> 6 [] c = "7" -> 7
    [] c = "8" -> 8 [] c = "9" -> 9 [] OTHER -> -1

RECURSIVE DigitsValue(_, _)
\* value of the longest prefix of decimal digits
DigitsValue(cs, acc) ==
  IF cs = <<>> \/ DigitValue(Head(cs)) < 0 THEN acc
  ELSE DigitsValue(Tail(cs), acc * 10 + DigitValue(Head(cs)))

\* parseInt(str, 10) for unsigned strings without leading white space: the
\* leading digits, NaN when there are none
ParseInt(str) ==
  LET cs == Chars(str)
  IN IF cs = <<>> \/ DigitValue(cs[1]) < 0 THEN NaN ELSE Num(DigitsValue(cs, 0))

\* variant: only the API key decides
ProviderConfigured_KeyOnly(url, apiKey) == Truthy(apiKey)

\* if (url || apiKey)
ProviderConfigured(url, apiKey) == Truthy(url) \/ Truthy(apiKey)

ProviderEntry(e, p) ==
  [url |-> Or(Get(e, p.urlVar, Undefined), p.defaultUrl),
   apiKey |-> Or(Get(e, p.keyVar, Undefined), ""),
   lineNumber |-> Or(Get(e, p.lineVar, Undefined), "")]

MockConfigured(e) ==
  Get(e, "NODE_ENV", Undefined) = "test" \/ Get(e, "SMS_USE_MOCK", Undefined) = "true"

MockEntry(e) ==
  [shouldFail |-> (Get(e, "SMS_MOCK_SHOULD_FAIL", Undefined) = "true"),
   delay |-> ParseInt(Get(e, "SMS_MOCK_DELAY", "0"))]

ProviderNamed(name) == CHOOSE p \in Providers : p.name = name

\* the ISmsConfig built by createFromConfigService
CreateConfig(e) ==
  LET configured ==
        {p.name : p \in {q \in Providers :
                           ProviderConfigured(Get(e, q.urlVar, Undefined),
                                              Get(e, q.keyVar, Undefined))}}
      names == configured \cup (IF MockConfigured(e) THEN {MOCK} ELSE {})
  IN [defaultDriver |-> Get(e, "SMS_DEFAULT_DRIVER", "kavenegar"),
      timeout |-> ParseInt(Get(e, "SMS_TIMEOUT", "10000")),
      drivers |-> [n \in names |->
                     IF n = MOCK /\ MockConfigured(e) THEN MockEntry(e)
                     ELSE ProviderEntry(e, ProviderNamed(n))]]

InitConfig ==
  /\ cpc = "idle"
  /\ env = [x \in {} |-> TRUE]
  /\ smsConfig = [x \in {} |-> TRUE]

\* createFromConfigService(configService), for a ConfigService holding at
\* most MaxEnvVars variables
CreateFromConfigService ==
  /\ cpc = "idle"
  /\ \E names \in {n \in SUBSET EnvNames : Cardinality(n) <= MaxEnvVars} :
       \E e \in EnvsOver(names) :
         /\ env' = e
         /\ smsConfig' = CreateConfig(e)
  /\ cpc' = "done"
  /\ UNCHANGED nonConfigVars

NextConfig == CreateFromConfigService

\* ------------------------- README: SmsNotificationService.sendWithRetry
\* The README example runs on the state of the retry loop: rpc, attempt,
\* lastError, calls, delays, retryResult; its maxRetries is the constant 3.
ReadmeMaxRetries == 3

\* sendWithRetry(phoneNumber, template, tokens): entry, `attempt = 1`
SendWithRetry ==
  /\ rpc = "idle"
  /\ maxRetries' = ReadmeMaxRetries
  /\ attempt' = 1
  /\ lastError' = NoError
  /\ rpc' = "loop"
  /\ UNCHANGED <<calls, delays, retryResult>>
  /\ UNCHANGED nonRetryVars

\* loop test true: invoke this.smsService.verify inside the try block
ReadmeStartAttempt ==
  /\ rpc = "loop"
  /\ attempt <= maxRetries
  /\ calls' = Append(calls, NoOutcome)
  /\ rpc' = "sending"
  /\ UNCHANGED <<maxRetries, attempt, lastError, delays, retryResult>>
  /\ UNCHANGED nonRetryVars

\* catch (error): lastError = error, then back off if attempts remain
ReadmeCatch(error) ==
  /\ lastError' = error
  /\ IF attempt < maxRetries
     THEN /\ delays' = Append(delays, Backoff(attempt))
          /\ rpc' = "delaying"
          /\ UNCHANGED attempt
     ELSE /\ attempt' = attempt + 1
          /\ rpc' = "loop"
          /\ UNCHANGED delays

\* the awaited verify returns a response: a successful one is returned; for
\* an unsuccessful one `throw new Error(response.error || 'SMS sending
\* failed')` is executed inside the try block, so the catch clause of the
\* same iteration receives it
ReadmeVerifyReturns ==
  /\ rpc = "sending"
  /\ \E response \in Responses :
       /\ Verify(Returned(response)).kind = "return"
       /\ calls' = [calls EXCEPT ![Len(calls)] = Returned(response)]
       /\ IF response.success
          THEN /\ retryResult' = Returned(response)
               /\ rpc' = "returned"
               /\ UNCHANGED <<attempt, lastError, delays>>
          ELSE /\ ReadmeCatch(NewError(Or(response.error, "SMS sending failed")))
               /\ UNCHANGED retryResult
  /\ UNCHANGED maxRetries
  /\ UNCHANGED nonRetryVars

\* the awaited verify throws: the catch clause receives the thrown value
ReadmeVerifyThrows ==
  /\ rpc = "sending"
  /\ \E error \in Throwables :
       /\ Verify(Threw(error)).kind = "throw"
       /\ calls' = [calls EXCEPT ![Len(calls)] = Threw(error)]
       /\ ReadmeCatch(error)
  /\ UNCHANGED <<maxRetries, retryResult>>
  /\ UNCHANGED nonRetryVars

\* await this.delay(...) completes: attempt++
ReadmeDelayElapsed ==
  /\ rpc = "delaying"
  /\ attempt' = attempt + 1
  /\ rpc' = "loop"
  /\ UNCHANGED <<maxRetries, lastError, calls, delays, retryResult>>
  /\ UNCHANGED nonRetryVars

\* loop test false: throw lastError
ReadmeThrowLastError ==
  /\ rpc = "loop"
  /\ ~(attempt <= maxRetries)
  /\ retryResult' = Threw(lastError)
  /\ rpc' = "thrown"
  /\ UNCHANGED <<maxRetries, attempt, lastError, calls, delays>>
  /\ UNCHANGED nonRetryVars

NextReadmeRetry ==
  SendWithRetry \/ ReadmeStartAttempt \/ ReadmeVerifyReturns
    \/ ReadmeVerifyThrows \/ ReadmeDelayElapsed \/ ReadmeThrowLastError

\* ------------------------------------------------ SmsService.getServiceInfo
\* key order of config.drivers
DriverOrder == <<"kavenegar", "smsir", MOCK>>
ApiKeys == {"key-A", "key-B"}
LineNumbers == {"line-A", "line-B"}
\* the entries config.drivers may hold for a driver
DriverEntries(name) ==
  IF name = MOCK
  THEN { [shouldFail |-> FALSE, delay |-> Num(0)] }
  ELSE { [url |-> "https://sms.example.test/", apiKey |-> k, lineNumber |-> l] :
           k \in ApiKeys, l \in LineNumbers }

RECURSIVE DriverConfigsOver(_)
\* every config.drivers object with the given keys
DriverConfigsOver(names) ==
  IF names = {} THEN { [x \in {} |-> TRUE] }
  ELSE LET n == CHOOSE m \in names : TRUE
       IN { [k \in DOMAIN ds \cup {n} |-> IF k = n THEN entry ELSE ds[k]] :
              ds \in DriverConfigsOver(names \ {n}), entry \in DriverEntries(n) }

\* ISmsConfig.timeout?: number
ConfigTimeouts == {Num(0), Num(5000), NaN}
\* ISmsConfig values, with and without a timeout
ServiceConfigs ==
  LET base == { [defaultDriver |-> d, drivers |-> ds] :
                  d \in Drivers,
                  ds \in UNION {DriverConfigsOver(names) : names \in SUBSET Drivers} }
  IN base \cup { [defaultDriver |-> c.defaultDriver, drivers |-> c.drivers,
                   timeout |-> t] : c \in base, t \in ConfigTimeouts }

\* truthiness of a JavaScript number
TruthyNum(n) == ~n.nan /\ n.val # 0

\* Object.keys(obj), as a sequence
ObjectKeys(obj) ==
  LET IsKey(k) == k \in DOMAIN obj
  IN SelectSeq(DriverOrder, IsKey)

\* this.coreService.getDefaultDriver()
CoreGetDefaultDriver(cfg) == cfg.defaultDriver
\* this.coreService.getAvailableDrivers(): the drivers registered from
\* config.drivers
CoreGetAvailableDrivers(cfg) == ObjectKeys(cfg.drivers)

\* getServiceInfo() of a service constructed with cfg
ServiceInfo(cfg) ==
  [defaultDriver |-> CoreGetDefaultDriver(cfg),
   availableDrivers |-> CoreGetAvailableDrivers(cfg),
   timeout |-> IF "timeout" \in DOMAIN cfg /\ TruthyNum(cfg.timeout)
               THEN cfg.timeout ELSE Num(10000),
   driversConfigured |-> ObjectKeys(cfg.drivers)]

InitInfo ==
  /\ ipc = "idle"
  /\ iconfigs = <<>>
  /\ infoResults = <<>>

\* getServiceInfo() on two services, each constructed with its own config
CallGetServiceInfo ==
  /\ ipc = "idle"
  /\ \E cfgA \in ServiceConfigs, cfgB \in ServiceConfigs :
       /\ iconfigs' = <<cfgA, cfgB>>
       /\ infoResults' = <<ServiceInfo(cfgA), ServiceInfo(cfgB)>>
  /\ ipc' = "done"
  /\ UNCHANGED nonInfoVars

NextInfo == CallGetServiceInfo

\* --------------------------------------------------------------- SmsModule
\* injection tokens
SMS_MODULE_OPTIONS == [symbol |-> "SMS_MODULE_OPTIONS"]
SMS_CONFIG == [symbol |-> "SMS_CONFIG"]
\* the token of SmsService's constructor parameter: @Inject('SMS_CONFIG')
ConstructorConfigToken == [string |-> "SMS_CONFIG"]
SmsServiceClass == [class |-> "SmsService"]
ConfigServiceClass == [class |-> "ConfigService"]
\* a class listed as a provider is provided under itself
ClassProvider(cls) == [provide |-> cls, useClass |-> cls]

RECURSIVE RecordsOver(_, _)
\* every object with the given fields, each drawn from vals[field]
RecordsOver(names, vals) ==
  IF names = {} THEN { [x \in {} |-> TRUE] }
  ELSE LET n == CHOOSE m \in names : TRUE
       IN { [k \in DOMAIN r \cup {n} |-> IF k = n THEN v ELSE r[k]] :
              r \in RecordsOver(names \ {n}, vals), v \in vals[n] }
\* every object whose fields are all optional
OptionalRecords(vals) ==
  UNION { RecordsOver(names, vals) : names \in SUBSET DOMAIN vals }
Has(o, field) == field \in DOMAIN o

\* SmsModuleAsyncOptions
AsyncOptions ==
  OptionalRecords([useFactory |-> {[fn |-> "configFactory"]},
                   useClass |-> {[class |-> "SmsConfigService"]},
                   useExisting |-> {[class |-> "ExistingConfigService"]},
                   inject |-> {<<ConfigServiceClass>>},
                   imports |-> {<<"ConfigModule">>},
                   isGlobal |-> {TRUE, FALSE}])
\* SmsModuleOptions
ModuleConfigs ==
  { [defaultDriver |-> MOCK, drivers |-> [d \in {MOCK} |-> [shouldFail |-> f, delay |-> Num(0)]]] :
      f \in BOOLEAN }
    \cup { [defaultDriver |-> "kavenegar", timeout |-> Num(5000),
            drivers |-> [d \in {"kavenegar"} |->
                           [url |-> "https://api.kavenegar.com/v1/",
                            apiKey |-> "key-A", lineNumber |-> "line-A"]]] }
RootOptions ==
  { [config |-> c] : c \in ModuleConfigs }
    \cup { [config |-> c, isGlobal |-> g] : c \in ModuleConfigs, g \in BOOLEAN }
EnvironmentOptions ==
  OptionalRecords([imports |-> {<<"ConfigModule">>}, isGlobal |-> {TRUE, FALSE}])
TestingOptions ==
  OptionalRecords([shouldFail |-> {TRUE, FALSE}, delay |-> {Num(0), Num(100)},
                   isGlobal |-> {TRUE, FALSE}])

\* `global: options.isGlobal`, left out of the model's record when undefined
WithGlobal(mod, o) ==
  IF Has(o, "isGlobal")
  THEN [k \in DOMAIN mod \cup {"global"} |-> IF k = "global" THEN o.isGlobal ELSE mod[k]]
  ELSE mod

InvalidAsyncConfiguration ==
  NewError("Invalid SMS module async configuration. Must provide useFactory, useClass, or useExisting.")
\* async (optionsFactory) => optionsFactory.createSmsOptions()
CreateSmsOptionsFactory == [fn |-> "optionsFactory.createSmsOptions"]

\* createAsyncOptionsProvider(options)
CreateAsyncOptionsProvider(o) ==
  IF Has(o, "useFactory")
  THEN Returned([provide |-> SMS_CONFIG, useFactory |-> o.useFactory,
                 inject |-> IF Has(o, "inject") THEN o.inject ELSE <<>>])
  ELSE IF Has(o, "useExisting")
  THEN Returned([provide |-> SMS_CONFIG, useFactory |-> CreateSmsOptionsFactory,
                 inject |-> <<o.useExisting>>])
  ELSE IF Has(o, "useClass")
  THEN Returned([provide |-> SMS_CONFIG, useFactory |-> CreateSmsOptionsFactory,
                 inject |-> <<o.useClass>>])
  ELSE Threw(InvalidAsyncConfiguration)

\* variant: the class variant registers a second provider under the
\* configuration token
CreateAsyncProviders_ClassUnderConfigToken(o) ==
  IF Has(o, "useExisting") \/ Has(o, "useFactory")
  THEN Returned(<<CreateAsyncOptionsProvider(o).response>>)
  ELSE IF Has(o, "useClass")
  THEN Returned(<<CreateAsyncOptionsProvider(o).response,
                  [provide |-> SMS_CONFIG, useClass |-> o.useClass]>>)
  ELSE Threw(InvalidAsyncConfiguration)

\* createAsyncProviders(options)
CreateAsyncProviders(o) ==
  IF Has(o, "useExisting") \/ Has(o, "useFactory")
  THEN Returned(<<CreateAsyncOptionsProvider(o).response>>)
  ELSE IF Has(o, "useClass")
  THEN Returned(<<CreateAsyncOptionsProvider(o).response, ClassProvider(o.useClass)>>)
  ELSE Threw(InvalidAsyncConfiguration)

\* forRoot(options)
ForRoot(o) ==
  Returned(WithGlobal(
    [module |-> "SmsModule",
     providers |-> << [provide |-> SMS_MODULE_OPTIONS, useValue |-> o],
                      [provide |-> SMS_CONFIG, useValue |-> o.config],
                      ClassProvider(SmsServiceClass) >>,
     exports |-> <<SmsServiceClass>>], o))

\* forRootAsync(options): createAsyncProviders runs first and may throw
ForRootAsync(o) ==
  LET created == CreateAsyncProviders(o)
  IN IF created.kind = "throw" THEN created
     ELSE Returned(WithGlobal(
            [module |-> "SmsModule",
             imports |-> IF Has(o, "imports") THEN o.imports ELSE <<>>,
             providers |-> created.response \o <<ClassProvider(SmsServiceClass)>>,
             exports |-> <<SmsServiceClass>>], o))

\* forEnvironment(options = {})
ForEnvironment(o) ==
  ForRootAsync(WithGlobal(
    [imports |-> IF Has(o, "imports") THEN o.imports ELSE <<>>,
     useFactory |-> [fn |-> "createFromConfigService"],
     inject |-> <<ConfigServiceClass>>],
    IF Has(o, "isGlobal") THEN [isGlobal |-> o.isGlobal] ELSE o))

\* NestSmsConfigHelper.createForTesting(options): the core's mock configuration
CreateForTesting(o) ==
  [defaultDriver |-> MOCK,
   drivers |-> [d \in {MOCK} |->
                  [shouldFail |-> IF Has(o, "shouldFail") THEN o.shouldFail ELSE FALSE,
                   delay |-> IF Has(o, "delay") THEN o.delay ELSE Num(0)]]]

\* forTesting(options = {})
ForTesting(o) ==
  ForRoot(IF Has(o, "isGlobal")
          THEN [config |-> CreateForTesting(o), isGlobal |-> o.isGlobal]
          ELSE [config |-> CreateForTesting(o)])

\* what a provider yields when the container resolves it
Resolve(provider) ==
  IF Has(provider, "useValue") THEN provider.useValue
  ELSE [resultOf |-> provider.useFactory, args |-> provider.inject]

\* the providers of the module registered under a token
ProvidersFor(mod, token) ==
  LET Provides(p) == p.provide = token
  IN SelectSeq(mod.providers, Provides)

InitModule ==
  /\ mpc = "idle"
  /\ mcall = [x \in {} |-> TRUE]
  /\ moduleResult = NoOutcome
  /\ injected = NoOutcome

\* SmsModule.forRoot(options)
CallForRoot ==
  /\ mpc = "idle"
  /\ \E o \in RootOptions :
       /\ mcall' = [method |-> "forRoot", options |-> o]
       /\ moduleResult' = ForRoot(o)
       /\ mpc' = IF ForRoot(o).kind = "throw" THEN "thrown" ELSE "registered"
  /\ UNCHANGED injected
  /\ UNCHANGED nonModuleVars

\* SmsModule.forRootAsync(options)
CallForRootAsync ==
  /\ mpc = "idle"
  /\ \E o \in AsyncOptions :
       /\ mcall' = [method |-> "forRootAsync", options |-> o]
       /\ moduleResult' = ForRootAsync(o)
       /\ mpc' = IF ForRootAsync(o).kind = "throw" THEN "thrown" ELSE "registered"
  /\ UNCHANGED injected
  /\ UNCHANGED nonModuleVars

\* SmsModule.forEnvironment(options)
CallForEnvironment ==
  /\ mpc = "idle"
  /\ \E o \in EnvironmentOptions :
       /\ mcall' = [method |-> "forEnvironment", options |-> o]
       /\ moduleResult' = ForEnvironment(o)
       /\ mpc' = IF ForEnvironment(o).kind = "throw" THEN "thrown" ELSE "registered"
  /\ UNCHANGED injected
  /\ UNCHANGED nonModuleVars

\* SmsModule.forTesting(options)
CallForTesting ==
  /\ mpc = "idle"
  /\ \E o \in TestingOptions :
       /\ mcall' = [method |-> "forTesting", options |-> o]
       /\ moduleResult' = ForTesting(o)
       /\ mpc' = IF ForTesting(o).kind = "throw" THEN "thrown" ELSE "registered"
  /\ UNCHANGED injected
  /\ UNCHANGED nonModuleVars

\* the container instantiates SmsService from the module's providers: the
\* constructor parameter is looked up under the token given to @Inject
InstantiateSmsService ==
  /\ mpc = "registered"
  /\ LET found == ProvidersFor(moduleResult.response, ConstructorConfigToken)
     IN injected' =
          IF found = <<>>
          THEN Threw(NewError("Nest can't resolve dependencies of the SmsService"))
          ELSE Returned(Resolve(found[Len(found)]))
  /\ mpc' = "instantiated"
  /\ UNCHANGED <<mcall, moduleResult>>
  /\ UNCHANGED nonModuleVars

NextModule ==
  CallForRoot \/ CallForRootAsync \/ CallForEnvironment \/ CallForTesting
    \/ InstantiateSmsService

\* ------- validateDriverEnvironment / getMissingEnvironmentVars
\* the members of DriverType
DriverTypes == {p.name : p \in Providers} \cup {MOCK}
IsProvider(driverType) == \E p \in Providers : p.name = driverType

\* validateDriverEnvironment(driverType, configService)
ValidateDriverEnvironment(driverType, e) ==
  IF IsProvider(driverType)
  THEN LET p == ProviderNamed(driverType)
       IN Truthy(Get(e, p.keyVar, Undefined)) /\ Truthy(Get(e, p.lineVar, Undefined))
  ELSE IF driverType = MOCK THEN TRUE
  ELSE FALSE

\* variant: only the API key is looked at
GetMissingEnvironmentVars_KeyOnly(driverType, e) ==
  IF IsProvider(driverType)
  THEN LET p == ProviderNamed(driverType)
       IN IF ~Truthy(Get(e, p.keyVar, Undefined)) THEN <<p.keyVar>> ELSE <<>>
  ELSE <<>>

\* getMissingEnvironmentVars(driverType, configService)
GetMissingEnvironmentVars(driverType, e) ==
  IF IsProvider(driverType)
  THEN LET p == ProviderNamed(driverType)
       IN (IF ~Truthy(Get(e, p.keyVar, Undefined)) THEN <<p.keyVar>> ELSE <<>>)
            \o (IF ~Truthy(Get(e, p.lineVar, Undefined)) THEN <<p.lineVar>> ELSE <<>>)
  ELSE <<>>

InitEnvCheck ==
  /\ epc = "idle"
  /\ eargs = [x \in {} |-> TRUE]
  /\ valid = FALSE
  /\ missing = <<>>

\* both functions are called with the same driver type and ConfigService,
\* which holds at most MaxEnvVars of the credential variables
CheckDriverEnvironment ==
  /\ epc = "idle"
  /\ \E driverType \in DriverTypes :
       \E names \in {n \in SUBSET (KeyVars \cup LineVars) : Cardinality(n) <= MaxEnvVars} :
         \E e \in EnvsOver(names) :
           /\ eargs' = [driverType |-> driverType, env |-> e]
           /\ valid' = ValidateDriverEnvironment(driverType, e)
           /\ missing' = GetMissingEnvironmentVars(driverType, e)
  /\ epc' = "done"
  /\ UNCHANGED nonEnvCheckVars

NextEnvCheck == CheckDriverEnvironment

Init ==
  InitBulk /\ InitRetry /\ InitFallback /\ InitVerify /\ InitHealth /\ InitConfig
    /\ InitInfo /\ InitModule /\ InitEnvCheck

Next == VerifyBulk \/ StartBatch \/ SettleSend \/ AwaitBatch \/ ReturnResults

Spec == Init /\ [][Next]_vars

\* verifyBulk on at most MaxLiveMsgs messages, when every started send
\* eventually settles and the call itself keeps running (the event loop
\* resumes a continuation that is ready)
NextLive == VerifyBulkLive \/ StartBatch \/ SettleSend \/ AwaitBatch \/ ReturnResults

SpecLive ==
  /\ Init /\ [][NextLive]_vars
  /\ WF_vars(SettleSend)
  /\ WF_vars(StartBatch) /\ WF_vars(AwaitBatch) /\ WF_vars(ReturnResults)

NextRetry ==
  SendOtpWithRetry \/ StartAttempt \/ VerifyReturns \/ VerifyThrows
    \/ DelayElapsed \/ ThrowLastError

SpecRetry == Init /\ [][NextRetry]_vars

SpecFallback == Init /\ [][NextFallback]_vars

SpecVerify == Init /\ [][NextVerify]_vars

SpecHealth == Init /\ [][NextHealth]_vars

SpecConfig == Init /\ [][NextConfig]_vars

SpecReadmeRetry == Init /\ [][NextReadmeRetry]_vars

SpecInfo == Init /\ [][NextInfo]_vars

SpecModule == Init /\ [][NextModule]_vars

SpecEnvCheck == Init /\ [][NextEnvCheck]_vars

\* ======================================================= verifyBulk claims
SendsOf(k) == {t \in 1..Len(tasks) : tasks[t].source = k}
InFlight == {t \in 1..Len(tasks) : tasks[t].outcome = NoOutcome}
ThrewSends == {t \in 1..Len(tasks) : tasks[t].outcome.kind = "throw"}
\* the slot of the returned array that belongs to the send t
SlotOf(t) == tasks[t].source + 1
HasSlot(t) ==
  /\ SlotOf(t) <= Len(bulkResult.value)
  /\ bulkResult.value[SlotOf(t)] # Hole

\* C1: with concurrency >= 1 and failFast=false, verifyBulk returns exactly N
\* results and result[k] is the outcome of the one send of message[k] (the
\* returned response, or a failure when that send threw), whatever the
\* completion order of the sends.
C1_OrderedResults ==
  (pc = "returned" /\ concurrency >= 1 /\ ~failFast) =>
    /\ Len(bulkResult.value) = Len(messages)
    /\ \A k \in 1..Len(messages) :
         /\ SendsOf(k - 1) # {}
         /\ \A t \in SendsOf(k - 1) :
              /\ tasks[t].message = messages[k]
              /\ tasks[t].outcome.kind \in {"return", "throw"}
              /\ bulkResult.value[k] # Hole
              /\ tasks[t].outcome.kind = "return"
                   => bulkResult.value[k] = tasks[t].outcome.response
              /\ tasks[t].outcome.kind = "throw"
                   => bulkResult.value[k].success = FALSE

\* three messages in batches of two, the first batch completing out of
\* order with one success and one throw, the last send rejected
C1_Witness ==
  /\ pc = "returned" /\ ~failFast /\ concurrency = 2 /\ Len(messages) = 3
  /\ settled = <<2, 1, 3>>
  /\ tasks[1].outcome.kind = "return" /\ tasks[1].outcome.response.success
  /\ tasks[2].outcome.kind = "throw"
  /\ tasks[3].outcome.kind = "return" /\ ~tasks[3].outcome.response.success

\* C2: with concurrency C >= 1 at most C sends are started and unsettled in
\* any state, and each batch is the next C consecutive messages (fewer in the
\* last batch).
C2_BoundedConcurrency ==
  concurrency >= 1 =>
    /\ Cardinality(InFlight) <= concurrency
    /\ pc = "await" =>
         /\ i % concurrency = 0
         /\ Len(batchPromises) = Min(concurrency, Len(messages) - i)
         /\ \A p \in 1..Len(batchPromises) :
              tasks[batchPromises[p]].source = i + p - 1

\* the smaller last batch in flight after a full batch of two
C2_Witness ==
  /\ pc = "await" /\ concurrency = 2 /\ Len(messages) = 3 /\ i = 2
  /\ Cardinality(InFlight) = 1
  /\ Len(batchPromises) = 1

\* C3: batches are never pipelined: whenever a send of a later batch has
\* been started, every send of every earlier batch has settled.
C3_NoPipelining ==
  \A t1 \in 1..Len(tasks), t2 \in 1..Len(tasks) :
    tasks[t1].base < tasks[t2].base => tasks[t1].outcome # NoOutcome

\* a send of the second batch is in flight
C3_Witness ==
  \E t1 \in 1..Len(tasks), t2 \in 1..Len(tasks) :
    /\ tasks[t1].base < tasks[t2].base
    /\ tasks[t2].outcome = NoOutcome
    /\ concurrency = 2

\* C4: with failFast=true, once a send has thrown the call can only throw
\* (it is about to, or has, with an error thrown by a send and without any
\* result sequence), and no send of a later batch is ever started.
C4_FailFastThrows ==
  (failFast /\ ThrewSends # {}) =>
    /\ pc \in {"await", "thrown"}
    /\ pc = "await" => allP.state = "rejected"
    /\ pc = "thrown" =>
         /\ bulkResult.kind = "throw"
         /\ \E t \in ThrewSends : bulkResult = Threw(tasks[t].outcome.error)
    /\ \A t \in ThrewSends, u \in 1..Len(tasks) : tasks[u].base <= tasks[t].base

\* the call threw after a completed batch and with a batch never started
C4_Witness ==
  /\ pc = "thrown" /\ failFast
  /\ Len(results) >= 1
  /\ Len(tasks) < Len(messages)
  /\ ThrewSends # {}

\* C5: with failFast=false the call never throws; every exception of a send
\* is recorded at that message's index as success=false with error equal to
\* the exception's message, and every message is still sent.
C5_CaptureWhenNotFailFast ==
  ~failFast =>
    /\ pc # "thrown"
    /\ bulkResult.kind # "throw"
    /\ pc = "returned" =>
         /\ \A k \in 0..(Len(messages) - 1) : SendsOf(k) # {}
         /\ \A t \in ThrewSends :
              /\ HasSlot(t)
              /\ bulkResult.value[SlotOf(t)].success = FALSE
              /\ bulkResult.value[SlotOf(t)].error =
                   (IF tasks[t].outcome.error.kind = "string"
                    THEN tasks[t].outcome.error.value
                    ELSE tasks[t].outcome.error.message)

\* the first of three one-message batches threw and the other two were sent
C5_Witness ==
  /\ pc = "returned" /\ ~failFast /\ concurrency = 1 /\ Len(messages) = 3
  /\ tasks[1].outcome.kind = "throw"
  /\ Len(tasks) = 3

\* C6 as stated: errorCode is the code the thrown error carries, and
\* "UNKNOWN_ERROR" exactly when it carries none.
C6_CodeOfAnyError ==
  pc = "returned" =>
    \A t \in ThrewSends :
      /\ HasSlot(t)
      /\ bulkResult.value[SlotOf(t)].errorCode =
           (IF tasks[t].outcome.error.code # Undefined
            THEN tasks[t].outcome.error.code
            ELSE "UNKNOWN_ERROR")

\* C6 (amended): errorCode is the _code of the thrown error when it is an
\* SmsException, and "UNKNOWN_ERROR" for every other thrown value, whether or
\* not that value carries a code.
C6_CodeOfSmsException ==
  pc = "returned" =>
    \A t \in ThrewSends :
      /\ HasSlot(t)
      /\ bulkResult.value[SlotOf(t)].errorCode =
           (IF tasks[t].outcome.error.kind = "SmsException"
            THEN tasks[t].outcome.error._code
            ELSE "UNKNOWN_ERROR")

\* results converted from an SmsException and from a plain Error with a code
C6_Witness ==
  /\ pc = "returned"
  /\ \E t \in ThrewSends : tasks[t].outcome.error.kind = "SmsException"
  /\ \E t \in ThrewSends :
       /\ tasks[t].outcome.error.kind = "Error"
       /\ tasks[t].outcome.error.code # Undefined

\* C7: with failFast=true and no send throwing, the call never throws and
\* returns all N responses unchanged at their index, unsuccessful ones
\* included.
C7_RejectionNotFailFast ==
  (failFast /\ ThrewSends = {}) =>
    /\ pc # "thrown"
    /\ (pc = "returned" /\ concurrency >= 1) =>
         /\ Len(bulkResult.value) = Len(messages)
         /\ \A k \in 1..Len(messages) :
              /\ SendsOf(k - 1) # {}
              /\ \A t \in SendsOf(k - 1) :
                   /\ tasks[t].outcome.kind = "return"
                   /\ bulkResult.value[k] = tasks[t].outcome.response

\* a rejected first message followed by further batches, all returned
C7_Witness ==
  /\ pc = "returned" /\ failFast /\ concurrency = 1 /\ Len(messages) >= 2
  /\ tasks[1].outcome.kind = "return" /\ ~tasks[1].outcome.response.success
  /\ Len(tasks) = Len(messages)

\* ================================================= sendOtpWithRetry claims
\* C8: for maxRetries >= 1, when the first send returns success=false without
\* throwing, that response is returned and the send capability has been
\* invoked exactly once.
C8_NoRetryOnRejection ==
  (/\ maxRetries >= 1
   /\ Len(calls) >= 1
   /\ calls[1].kind = "return"
   /\ ~calls[1].response.success) =>
    /\ Len(calls) = 1
    /\ rpc = "returned"
    /\ retryResult = Returned(calls[1].response)

\* a rejection returned although three attempts were allowed
C8_Witness ==
  /\ maxRetries = 3 /\ rpc = "returned" /\ Len(calls) = 1
  /\ calls[1].kind = "return" /\ ~calls[1].response.success
  /\ retryResult = Returned(calls[1].response)

\* C9: for maxRetries >= 1 at most maxRetries sends are made; every send but
\* the last one threw; a send that returns ends the call with its response;
\* when all maxRetries sends threw the call throws the error of the last
\* send (as an Error), not an earlier one.
C9_BoundedAttempts ==
  maxRetries >= 1 =>
    /\ Len(calls) <= maxRetries
    /\ \A k \in 1..(Len(calls) - 1) : calls[k].kind = "throw"
    /\ (Len(calls) >= 1 /\ calls[Len(calls)].kind = "return") =>
         /\ rpc = "returned"
         /\ retryResult = Returned(calls[Len(calls)].response)
    /\ rpc = "returned" => (Len(calls) >= 1 /\ calls[Len(calls)].kind = "return")
    /\ rpc = "thrown" =>
         /\ Len(calls) = maxRetries
         /\ calls[maxRetries].kind = "throw"
         /\ retryResult =
              Threw(IF calls[maxRetries].error.kind = "string"
                    THEN NewError(calls[maxRetries].error.value)
                    ELSE calls[maxRetries].error)

\* three attempts threw and the last error differs from the earlier ones
C9_Witness ==
  /\ rpc = "thrown" /\ maxRetries = 3 /\ Len(calls) = 3
  /\ calls[1].error # calls[3].error
  /\ calls[2].error # calls[3].error
  /\ retryResult = Threw(calls[3].error)

\* C10: for maxRetries >= 1 the k-th delay is 2^k * 1000 ms and there is one
\* delay per throwing attempt k < maxRetries, none before the first attempt
\* or after the last; throwing twice then succeeding with maxRetries = 3
\* gives exactly the delays 2000, 4000.
C10_BackoffDelays ==
  maxRetries >= 1 =>
    /\ Len(delays) =
         Cardinality({k \in 1..Len(calls) : calls[k].kind = "throw" /\ k < maxRetries})
    /\ \A k \in 1..Len(delays) : delays[k] = (2 ^ k) * 1000
    /\ (/\ maxRetries = 3 /\ Len(calls) = 3
        /\ calls[1].kind = "throw" /\ calls[2].kind = "throw"
        /\ calls[3].kind = "return") => delays = <<2000, 4000>>

\* two throws then a success with maxRetries = 3
C10_Witness ==
  /\ rpc = "returned" /\ maxRetries = 3 /\ Len(calls) = 3
  /\ calls[1].kind = "throw" /\ calls[2].kind = "throw"
  /\ calls[3].kind = "return" /\ calls[3].response.success
  /\ delays = <<2000, 4000>>

\* ================================================= sendWithFallback claims
\* positions in fcalls of the sends that returned a response
Obtained == {k \in 1..Len(fcalls) : fcalls[k].outcome.kind = "return"}
LastObtained == CHOOSE k \in Obtained : \A j \in Obtained : j <= k

\* C11: the send capability is never invoked for a driver that is not
\* available; with the primary unavailable and the fallback available and
\* succeeding, the fallback's success is returned after a single send, to
\* the fallback.
C11_NoSendToUnavailable ==
  /\ \A k \in 1..Len(fcalls) : fcalls[k].driver \in Range(available)
  /\ (/\ Len(drivers) = 2
      /\ drivers[1] \notin Range(available)
      /\ Len(fcalls) >= 1
      /\ fcalls[1].outcome.kind = "return"
      /\ fcalls[1].outcome.response.success) =>
        /\ fcalls[1].driver = drivers[2]
        /\ Len(fcalls) = 1
        /\ fpc = "returned"
        /\ fallbackResult = Returned(fcalls[1].outcome.response)

\* the primary was skipped as unavailable and the fallback succeeded
C11_Witness ==
  /\ fpc = "returned" /\ Len(drivers) = 2
  /\ drivers[1] \notin Range(available)
  /\ Len(fchecks) = 2 /\ fchecks[1].result = "unavailable"
  /\ Len(fcalls) = 1 /\ fcalls[1].driver = drivers[2]
  /\ fallbackResult.response.success

\* C12: candidates are checked and sent to in list order, and a response
\* with success=true ends the call at once with that response: it is the
\* last send, and no later candidate is checked for availability.
C12_FirstSuccessReturned ==
  /\ Len(fchecks) <= Len(drivers)
  /\ \A k \in 1..Len(fchecks) : fchecks[k].driver = drivers[k]
  /\ \A k \in 1..Len(fcalls) :
       /\ fcalls[k].pos \in 1..Len(fchecks)
       /\ fcalls[k].driver = drivers[fcalls[k].pos]
       /\ \A j \in 1..(k - 1) : fcalls[j].pos < fcalls[k].pos
       /\ (fcalls[k].outcome.kind = "return" /\ fcalls[k].outcome.response.success) =>
            /\ k = Len(fcalls)
            /\ Len(fchecks) = fcalls[k].pos
            /\ fpc = "returned"
            /\ fallbackResult = Returned(fcalls[k].outcome.response)

\* the primary succeeded while a different, available fallback was waiting
C12_Witness ==
  /\ fpc = "returned" /\ Len(drivers) = 2
  /\ drivers[2] # drivers[1] /\ drivers[2] \in Range(available)
  /\ Len(fchecks) = 1 /\ Len(fcalls) = 1
  /\ fcalls[1].outcome.kind = "return" /\ fcalls[1].outcome.response.success

\* C13: when the call returns without any success, the result is the most
\* recently obtained success=false response, and it is the synthetic "All
\* drivers failed or unavailable" response exactly when no candidate
\* returned any response.
C13_LastFailureOrSynthetic ==
  (/\ fpc = "returned"
   /\ \A k \in Obtained : ~fcalls[k].outcome.response.success) =>
    /\ fallbackResult.kind = "return"
    /\ Obtained # {} =>
         fallbackResult.response = fcalls[LastObtained].outcome.response
    /\ (fallbackResult.response = AllFailedResponse) <=> (Obtained = {})

\* both candidates returned different success=false responses
C13_Witness ==
  /\ fpc = "returned" /\ Len(fcalls) = 2
  /\ fcalls[1].outcome.kind = "return" /\ fcalls[2].outcome.kind = "return"
  /\ fcalls[1].outcome.response # fcalls[2].outcome.response
  /\ fallbackResult.response = fcalls[2].outcome.response

\* C14: the call never throws: an exception of a send or of an availability
\* check is swallowed, the next candidate is tried, and the call ends by
\* returning a result.
C14_NeverThrows ==
  /\ fpc # "thrown"
  /\ fallbackResult.kind # "throw"
  /\ fpc \in {"idle", "loop", "sending", "returned"}
  /\ fpc = "returned" <=> fallbackResult.kind = "return"
  /\ \A k \in 1..Len(fchecks) :
       (fchecks[k].result = "threw" /\ k < Len(drivers) /\ fpc = "returned") =>
          (Len(fchecks) > k \/ \E j \in 1..Len(fcalls) : fcalls[j].outcome.kind = "return"
                                                   /\ fcalls[j].outcome.response.success)
  /\ \A k \in 1..Len(fcalls) :
       (fcalls[k].outcome.kind = "throw" /\ fcalls[k].pos < Len(drivers)
          /\ fpc = "returned") => Len(fchecks) > fcalls[k].pos

\* the availability check of the primary threw, the send to the fallback
\* threw, and the call returned
C14_Witness ==
  /\ fpc = "returned" /\ Len(drivers) = 2
  /\ Len(fchecks) = 2 /\ fchecks[1].result = "threw"
  /\ Len(fcalls) = 1 /\ fcalls[1].outcome.kind = "throw"
  /\ fallbackResult = Returned(AllFailedResponse)

\* C15: the candidate list is [primaryDriver if given, else the default
\* driver; fallbackDriver if given, else the first available driver other
\* than the primary candidate], empty entries removed: with fallbackDriver
\* omitted the second candidate is an available driver different from the
\* first candidate whenever such a driver exists.
C15_AlternativeDiffersFromPrimary ==
  LET primary == IF "primaryDriver" \in DOMAIN fargs
                 THEN fargs.primaryDriver ELSE defaultDriver
      others == {k \in 1..Len(available) : available[k] # primary}
      firstOther == available[CHOOSE k \in others : \A j \in others : k <= j]
  IN (fpc # "idle") =>
       /\ primary # "" => (Len(drivers) >= 1 /\ drivers[1] = primary)
       /\ "fallbackDriver" \in DOMAIN fargs =>
            drivers[Len(drivers)] = fargs.fallbackDriver
       /\ ("fallbackDriver" \notin DOMAIN fargs /\ others # {}) =>
            drivers[Len(drivers)] = firstOther

\* ======================================================== SmsService claims
\* C16: verify invokes the core send exactly once, with its own argument,
\* and settles exactly as the core did: the same response (successful or
\* not) or the same thrown exception.
C16_VerifyTransparent ==
  /\ Len(coreCalls) <= 1
  /\ vpc # "idle" => (Len(coreCalls) = 1 /\ coreCalls[1].message = vmessage)
  /\ vpc = "awaiting" => verifyResult = NoOutcome
  /\ vpc = "done" =>
       /\ coreCalls[1].outcome # NoOutcome
       /\ verifyResult = coreCalls[1].outcome

\* the core threw a validation exception for an empty recipient
C16_Witness ==
  /\ vpc = "done" /\ vmessage.to = ""
  /\ coreCalls[1].outcome.kind = "throw"
  /\ coreCalls[1].outcome.error.kind = "SmsException"
  /\ verifyResult = coreCalls[1].outcome

\* C17: healthCheck never throws; it is 'healthy' with the default driver
\* and the available drivers when getServiceInfo returns, and 'unhealthy'
\* with the thrown error's message, no available drivers and the configured
\* default driver when getServiceInfo throws.
C17_HealthCheckNeverThrows ==
  hpc = "done" =>
    /\ healthResult.kind = "return"
    /\ hconfig.serviceInfo.kind = "return" =>
         /\ healthResult.response.status = "healthy"
         /\ healthResult.response.defaultDriver = hconfig.config.defaultDriver
         /\ healthResult.response.availableDrivers = hconfig.config.available
         /\ healthResult.response.error = Undefined
    /\ hconfig.serviceInfo.kind = "throw" =>
         /\ healthResult.response.status = "unhealthy"
         /\ healthResult.response.defaultDriver = hconfig.config.defaultDriver
         /\ healthResult.response.availableDrivers = <<>>
         /\ healthResult.response.error =
              (IF hconfig.serviceInfo.error.kind = "string"
               THEN hconfig.serviceInfo.error.value
               ELSE hconfig.serviceInfo.error.message)

\* getServiceInfo threw although drivers are available
C17_Witness ==
  /\ hpc = "done"
  /\ hconfig.serviceInfo.kind = "throw"
  /\ hconfig.config.available # <<>>
  /\ healthResult.kind = "return"
  /\ healthResult.response.status = "unhealthy"
  /\ healthResult.response.error = "socket hang up"

\* ============================================ createFromConfigService claims
IsSet(name) == name \in DOMAIN env
NonEmpty(name) == IsSet(name) /\ env[name] # ""

\* C18: defaultDriver is SMS_DEFAULT_DRIVER, or kavenegar when unset;
\* timeout is the integer value of SMS_TIMEOUT, or 10000 when unset; the
\* timeout of the result is always a number.
C18_NumericTimeout ==
  cpc = "done" =>
    /\ smsConfig.defaultDriver =
         (IF IsSet("SMS_DEFAULT_DRIVER") THEN env["SMS_DEFAULT_DRIVER"] ELSE "kavenegar")
    /\ ~IsSet("SMS_TIMEOUT") => smsConfig.timeout = Num(10000)
    /\ (IsSet("SMS_TIMEOUT") /\ env["SMS_TIMEOUT"] = "15000")
         => smsConfig.timeout = Num(15000)
    /\ smsConfig.timeout.nan = FALSE

\* C19: a provider entry is present iff its URL or API-key variable is set
\* to a non-empty value, with the URL defaulting to the documented one and a
\* missing key or line number to the empty string; the mock entry is present
\* iff NODE_ENV is 'test' or SMS_USE_MOCK is 'true'.
C19_DriverEntries ==
  cpc = "done" =>
    /\ \A p \in Providers :
         /\ (p.name \in DOMAIN smsConfig.drivers)
              <=> (NonEmpty(p.urlVar) \/ NonEmpty(p.keyVar))
         /\ (p.name \in DOMAIN smsConfig.drivers) =>
              /\ smsConfig.drivers[p.name].url =
                   (IF NonEmpty(p.urlVar) THEN env[p.urlVar] ELSE p.defaultUrl)
              /\ smsConfig.drivers[p.name].apiKey =
                   (IF NonEmpty(p.keyVar) THEN env[p.keyVar] ELSE "")
              /\ smsConfig.drivers[p.name].lineNumber =
                   (IF NonEmpty(p.lineVar) THEN env[p.lineVar] ELSE "")
    /\ (MOCK \in DOMAIN smsConfig.drivers)
         <=> ((IsSet("NODE_ENV") /\ env["NODE_ENV"] = "test")
              \/ (IsSet("SMS_USE_MOCK") /\ env["SMS_USE_MOCK"] = "true"))
    /\ DOMAIN smsConfig.drivers \subseteq {p.name : p \in Providers} \cup {MOCK}
    /\ ("kavenegar" \in DOMAIN smsConfig.drivers /\ ~NonEmpty("SMS_KAVENEGAR_URL"))
         => smsConfig.drivers["kavenegar"].url = "https://api.kavenegar.com/v1/"

\* kavenegar configured through a custom URL alone, next to the mock driver
C19_Witness ==
  /\ cpc = "done"
  /\ NonEmpty("SMS_KAVENEGAR_URL") /\ IsSet("SMS_KAVENEGAR_API_KEY")
  /\ ~NonEmpty("SMS_KAVENEGAR_API_KEY")
  /\ DOMAIN smsConfig.drivers = {"kavenegar", MOCK}
  /\ smsConfig.drivers["kavenegar"].apiKey = ""
  /\ smsConfig.drivers["kavenegar"].lineNumber = ""

\* ================================================== README sendWithRetry claim
\* C20: a provider-returned error is not retried: once verify has returned
\* a response with success=false, no further call to verify is made.
C20_ProviderErrorNotRetried ==
  \A k \in 1..Len(calls) :
    (calls[k].kind = "return" /\ ~calls[k].response.success) => k = Len(calls)

\* ==================================================== getServiceInfo claim
\* the two configurations differ at most in the values of their drivers'
\* API keys and line numbers
DifferOnlyInSecrets(a, b) ==
  /\ DOMAIN a = DOMAIN b
  /\ a.defaultDriver = b.defaultDriver
  /\ "timeout" \in DOMAIN a => a.timeout = b.timeout
  /\ DOMAIN a.drivers = DOMAIN b.drivers
  /\ \A n \in DOMAIN a.drivers :
       IF n = MOCK THEN a.drivers[n] = b.drivers[n]
       ELSE a.drivers[n].url = b.drivers[n].url
SecretsNotReported ==
  DifferOnlyInSecrets(iconfigs[1], iconfigs[2]) => infoResults[1] = infoResults[2]
\* a timeout is configured when the config carries a number for it
TimeoutConfigured(cfg) == "timeout" \in DOMAIN cfg /\ ~cfg.timeout.nan
TimeoutReported ==
  \A k \in 1..2 :
    infoResults[k].timeout =
      (IF TimeoutConfigured(iconfigs[k]) THEN iconfigs[k].timeout ELSE Num(10000))

\* C21: getServiceInfo gives the same result for two configurations that
\* differ only in API-key and line-number values, and reports the timeout as
\* the configured timeout, or 10000 when none is configured.
C21_SecretsExcludedTimeoutReported ==
  ipc = "done" => (SecretsNotReported /\ TimeoutReported)

\* ========================================================= SmsModule claims
\* C22: forRootAsync throws the 'Invalid SMS module async configuration'
\* error when none of useFactory, useClass and useExisting is supplied, and
\* otherwise returns a module with exactly one provider for the
\* configuration token, resolved from the single selected variant.
C22_AsyncProviderSelection ==
  (mpc # "idle" /\ mcall.method = "forRootAsync") =>
    LET o == mcall.options
    IN IF ~(Has(o, "useFactory") \/ Has(o, "useClass") \/ Has(o, "useExisting"))
       THEN /\ moduleResult.kind = "throw"
            /\ moduleResult.error.kind = "Error"
            /\ moduleResult.error.message = InvalidAsyncConfiguration.message
       ELSE /\ moduleResult.kind = "return"
            /\ Len(ProvidersFor(moduleResult.response, SMS_CONFIG)) = 1
            /\ LET p == ProvidersFor(moduleResult.response, SMS_CONFIG)[1]
               IN \/ Has(o, "useFactory") /\ p.useFactory = o.useFactory
                  \/ Has(o, "useExisting") /\ p.inject = <<o.useExisting>>
                  \/ Has(o, "useClass") /\ p.inject = <<o.useClass>>

\* the class variant alone: two providers, one of them for the token
C22_Witness ==
  /\ mpc = "registered" /\ mcall.method = "forRootAsync"
  /\ Has(mcall.options, "useClass")
  /\ ~Has(mcall.options, "useFactory") /\ ~Has(mcall.options, "useExisting")
  /\ Len(moduleResult.response.providers) = 3
  /\ Len(ProvidersFor(moduleResult.response, SMS_CONFIG)) = 1

\* C30: in every module returned by forRoot, forRootAsync, forEnvironment
\* and forTesting the configuration is provided under the token SmsService's
\* constructor requests, so SmsService is constructed with the configuration
\* supplied to the module.
C30_ConfigTokenMatches ==
  /\ mpc \in {"registered", "instantiated"} =>
       /\ ProvidersFor(moduleResult.response, ConstructorConfigToken) # <<>>
       /\ ProvidersFor(moduleResult.response, ConstructorConfigToken)
            = ProvidersFor(moduleResult.response, SMS_CONFIG)
  /\ mpc = "instantiated" =>
       /\ injected.kind = "return"
       /\ injected.response = Resolve(ProvidersFor(moduleResult.response, SMS_CONFIG)[1])

\* ============================================== environment validation claim
\* C29: for every driver type and every environment,
\* validateDriverEnvironment returns true if and only if
\* getMissingEnvironmentVars returns an empty list.
C29_ValidateAgreesWithMissing ==
  epc = "done" => (valid <=> missing = <<>>)

\* a provider with its API key set and its line number set to the empty string
C29_Witness ==
  /\ epc = "done"
  /\ eargs.driverType = "smsir"
  /\ "SMS_SMSIR_API_KEY" \in DOMAIN eargs.env
  /\ eargs.env["SMS_SMSIR_API_KEY"] # ""
  /\ "SMS_SMSIR_LINE_NUMBER" \in DOMAIN eargs.env
  /\ ~valid
  /\ missing = <<"SMS_SMSIR_LINE_NUMBER">>

\* ============================================ sendWithFallback, second part
\* C28: one sendWithFallback call invokes the send capability at most twice
\* and never for the same driver twice: the candidates are distinct drivers,
\* whatever arguments are given or omitted and whatever drivers are available.
C28_DistinctCandidates ==
  /\ Len(fcalls) <= 2
  /\ \A j, k \in 1..Len(fcalls) : fcalls[j].driver = fcalls[k].driver => j = k
  /\ fpc # "idle" =>
       \A j, k \in 1..Len(drivers) : drivers[j] = drivers[k] => j = k

\* ================================================ verifyBulk, second part
Completed == pc \in {"returned", "thrown"}
\* number of batches started so far (every batch is non-empty when
\* concurrency >= 1)
BatchesStarted == Cardinality({tasks[t].base : t \in 1..Len(tasks)})
\* ceil(n / c)
CeilDiv(n, c) == (n + c - 1) \div c

\* C25: for every finite message sequence and every integer concurrency >= 1,
\* if every started send eventually settles then verifyBulk eventually
\* completes (returns, or throws with failFast=true), after at most
\* ceil(N / concurrency) batches.
C25_TerminatesWithinBatches ==
  /\ [](concurrency >= 1 => BatchesStarted <= CeilDiv(Len(messages), concurrency))
  /\ ((pc # "idle" /\ concurrency >= 1) ~> Completed)

\* two messages at concurrency 1: completed after two batches
C25_Witness ==
  /\ pc = "returned"
  /\ Len(messages) = 2 /\ concurrency = 1
  /\ BatchesStarted = 2

\* C26: verifyBulk terminates for every concurrency value a caller can pass,
\* 0 and negative numbers included: with a non-empty message sequence and
\* every send settling, the call eventually returns or throws.
C26_TerminatesForAnyConcurrency ==
  (pc # "idle" /\ Len(messages) >= 1) ~> Completed

\* C23: every send of a batch is started before any of them is awaited, so
\* when verifyBulk throws with failFast=true the other sends of that batch
\* have been started, none of a later batch has, and the sends still in
\* flight are not cancelled: they can still settle after the throw.
C23_FailFastDoesNotCancel ==
  /\ (pc = "await" /\ concurrency >= 1) =>
       Len(batchPromises) = Min(concurrency, Len(messages) - i)
  /\ pc = "thrown" =>
       /\ failFast
       /\ \A t \in 1..Len(tasks) : tasks[t].base <= i
       /\ Cardinality({t \in 1..Len(tasks) : tasks[t].base = i})
            = Min(concurrency, Len(messages) - i)
       /\ InFlight # {} => ENABLED SettleSend

\* the call has thrown after one failure while another send of the batch is
\* still in flight
C23_Witness ==
  /\ pc = "thrown"
  /\ Len(batchPromises) >= 2
  /\ Len(settled) = 1
  /\ \E t \in InFlight : tasks[t].base = i

\* C24: with failFast=false the send capability is invoked exactly once for
\* every input message, whatever the outcome of its send, never twice, and
\* each result index is written exactly once.
C24_ExactlyOncePerMessage ==
  /\ [](\A k \in 0..(Len(messages) - 1) : Cardinality(SendsOf(k)) <= 1)
  /\ []((pc = "returned" /\ ~failFast) =>
          /\ \A k \in 0..(Len(messages) - 1) : Cardinality(SendsOf(k)) = 1
          /\ InFlight = {}
          /\ Len(tasks) = Len(messages))
  /\ [][~failFast =>
          \A k \in 1..Len(results) :
            results[k] # Hole => (k <= Len(results') /\ results'[k] = results[k])]_vars

\* three messages at concurrency 2, one send of each outcome kind
C24_Witness ==
  /\ pc = "returned" /\ ~failFast
  /\ Len(messages) = 3 /\ concurrency = 2
  /\ Len(tasks) = 3
  /\ \E a, b, c \in 1..3 :
       /\ tasks[a].outcome.kind = "throw"
       /\ tasks[b].outcome.kind = "return" /\ tasks[b].outcome.response.success
       /\ tasks[c].outcome.kind = "return" /\ ~tasks[c].outcome.response.success

\* positions in settled of the sends that threw
ThrowersInOrder == {k \in 1..Len(settled) : tasks[settled[k]].outcome.kind = "throw"}
FirstThrower == settled[CHOOSE k \in ThrowersInOrder : \A j \in ThrowersInOrder : k <= j]

\* C27: with failFast=true the exception verifyBulk propagates is the one
\* thrown by the send of the batch that failed first in completion order,
\* whatever the message indices of the failed sends.
C27_FirstFailureInCompletionOrder ==
  pc = "thrown" =>
    /\ ThrowersInOrder # {}
    /\ tasks[FirstThrower].base = i
    /\ bulkResult = Threw(tasks[FirstThrower].outcome.error)

\* two sends of one batch threw different errors; the later message failed
\* first and its error is the one propagated
C27_Witness ==
  /\ pc = "thrown"
  /\ Cardinality(ThrowersInOrder) >= 2
  /\ \E t \in 1..Len(tasks) :
       /\ t # FirstThrower
       /\ tasks[t].outcome.kind = "throw"
       /\ tasks[t].base = tasks[FirstThrower].base
       /\ tasks[t].source < tasks[FirstThrower].source
       /\ tasks[t].outcome.error # tasks[FirstThrower].outcome.error
  /\ bulkResult = Threw(tasks[FirstThrower].outcome.error)

====
